---- MODULE Spec2Model ----
(***************************************************************************)
(* A model of ImageFileCollection (src/image_collection.py): the masked    *)
(* summary table of FITS header keywords, the predicate filter that works  *)
(* by masking the table's 'file' column, and the generators that iterate   *)
(* over the unmasked files.                                                *)
(*                                                                         *)
(* Python objects that are shared by reference are modelled as such: the   *)
(* mask of a table column is one numpy array, named here by the pair       *)
(* <<table id, column>>, and held in the heap mask_arrays.                 *)
(***************************************************************************)
EXTENDS Integers, Sequences, FiniteSets, TLC

VARIABLES
    headers,       \* the directory: headers[i] is the FITS header of the i-th discovered file
    summary_info,  \* self._summary_info: the table (id, cols, data), or NoTable
    mask_arrays,   \* heap of mask arrays: <<table id, column>> -> sequence of booleans
    gen,           \* the generator object made by headers()/hdus()/data(): its arguments, locals and position
    written,       \* the paths the generator's hdulist.writeto has written
    last           \* history: the last completed call, its arguments and its outcome

vars == <<headers, summary_info, mask_arrays, gen, written, last>>

----------------------------------------------------------------------------
(* Bounds of the model *)

MaxFiles == 2

----------------------------------------------------------------------------
(* Values of header keywords: python str and int objects, tagged by type *)

StrV(s) == [t |-> "str", v |-> s]
IntV(i) == [t |-> "int", v |-> i]
None == [t |-> "none"]
NoKey == [t |-> "nokey"]          \* `keyword in header` is false
NoTable == [t |-> "notable"]      \* summary_info is None
Unreadable == [t |-> "unreadable"] \* fits.getheader raises IOError for the file

dummy_value == IntV(-123)

\* str.lower() and str.upper() on the strings of the model
Lower(s) == CASE s = "R" -> "r" [] OTHER -> s
Upper(s) == CASE s = "r" -> "R" [] OTHER -> s

\* str(val) at line 246, for the values it is applied to
PyStr(val) == IF val.t = "str" THEN val
              ELSE CASE val.v = -123 -> StrV("-123")
                     [] val.v = 1 -> StrV("1")
                     [] OTHER -> StrV("2")

HdrKeys == {"imagetyp", "naxis"}

\* the values a header of the model's directories gives each keyword
HdrVals(k) == IF k = "imagetyp" THEN {StrV("r"), StrV("R"), StrV("")}
              ELSE {IntV(1)}

Files == 1 .. Len(headers)

\* the names listdir gives, in discovery order
FileNames == <<"a.fit", "b.fit", "c.fit", "d.fit">>
FileName(i) == StrV(FileNames[i])

----------------------------------------------------------------------------
(* Sequence helpers *)

RECURSIVE Flatten(_)
Flatten(ss) == IF ss = <<>> THEN <<>> ELSE Head(ss) \o Flatten(Tail(ss))

SelectIdx(s, keep) ==
    LET RECURSIVE go(_)
        go(i) == IF i > Len(s) THEN <<>>
                 ELSE (IF keep[i] THEN <<s[i]>> ELSE <<>>) \o go(i + 1)
    IN go(1)

RECURSIVE Dedup(_)
Dedup(s) == IF s = <<>> THEN <<>>
            ELSE LET r == Dedup(SubSeq(s, 1, Len(s) - 1))
                     x == s[Len(s)]
                 IN IF \E i \in 1 .. Len(r) : r[i] = x THEN r ELSE Append(r, x)

Range(s) == {s[i] : i \in 1 .. Len(s)}

\* the keys of a dict as a list
RECURSIVE SetToSeq(_)
SetToSeq(S) == IF S = {} THEN <<>>
               ELSE LET x == CHOOSE y \in S : TRUE IN <<x>> \o SetToSeq(S \ {x})

----------------------------------------------------------------------------
(* _fits_summary, lines 195-252 *)

InHeader(hdr, k) == k \in DOMAIN hdr /\ hdr[k] # NoKey

\* lines 215-222: the files whose header is read, in the order of self.files
ReadableFiles(hdrs) ==
    SelectIdx([i \in 1 .. Len(hdrs) |-> i],
              [i \in 1 .. Len(hdrs) |-> hdrs[i] # Unreadable])

\* lines 223-239: what one file appends to summary[c] and missing_values[c];
\* a keyword listed twice appends twice
FileAppends(c, keywords, f, hdr) ==
    (IF c = "file" THEN <<[val |-> FileName(f), missing |-> FALSE]>> ELSE <<>>)
    \o Flatten([j \in 1 .. Len(keywords) |->
            IF keywords[j] # c THEN <<>>
            ELSE IF InHeader(hdr, c) THEN <<[val |-> hdr[c], missing |-> FALSE]>>
            ELSE <<[val |-> dummy_value, missing |-> TRUE]>>])

ColumnEntries(c, keywords, hdrs) ==
    LET rows == ReadableFiles(hdrs)
    IN Flatten([r \in 1 .. Len(rows) |-> FileAppends(c, keywords, rows[r], hdrs[rows[r]])])

\* lines 225-236: the types data_type[c] is compared with
PresentTypes(c, hdrs) ==
    {hdrs[f][c].t : f \in {g \in Range(ReadableFiles(hdrs)) : InHeader(hdrs[g], c)}}

\* TypeMismatch with each file compared with the file read just before it only
TypeMismatch_AdjacentFiles(keywords, hdrs) ==
    LET rows == ReadableFiles(hdrs)
    IN \E c \in Range(keywords) : \E r \in 2 .. Len(rows) :
          /\ InHeader(hdrs[rows[r]], c) /\ InHeader(hdrs[rows[r - 1]], c)
          /\ hdrs[rows[r]][c].t # hdrs[rows[r - 1]][c].t

TypeMismatch(keywords, hdrs) ==
    \E c \in Range(keywords) : Cardinality(PresentTypes(c, hdrs)) > 1

\* lines 243-249: a column without data_type is converted with str(); numpy
\* makes a list that mixes str values and the dummy an array of strings
ColumnIsStr(c, hdrs) ==
    c = "file" \/ PresentTypes(c, hdrs) = {} \/ PresentTypes(c, hdrs) = {"str"}

ColumnData(c, keywords, hdrs) ==
    LET es == ColumnEntries(c, keywords, hdrs)
    IN [i \in 1 .. Len(es) |->
            IF ColumnIsStr(c, hdrs) THEN PyStr(es[i].val) ELSE es[i].val]

\* ColumnMask with the placeholder cells left unmasked
ColumnMask_NeverMasked(c, keywords, hdrs) ==
    [i \in 1 .. Len(ColumnEntries(c, keywords, hdrs)) |-> FALSE]

ColumnMask(c, keywords, hdrs) ==
    LET es == ColumnEntries(c, keywords, hdrs)
    IN [i \in 1 .. Len(es) |-> es[i].missing]

\* the OrderedDict's keys: 'file', then the keywords in order of first use
SummaryCols(keywords) == Dedup(<<"file">> \o keywords)

\* lines 226-236: the row and the position in keywords at which the loop over
\* the files, and within a file over the keywords, first finds a type other
\* than the one first recorded
FirstMismatch(keywords, hdrs) ==
    LET rows == ReadableFiles(hdrs)
        Present(r, c) == InHeader(hdrs[rows[r]], c)
        FirstRow(c) == CHOOSE r \in 1 .. Len(rows) :
                          Present(r, c) /\ \A q \in 1 .. (r - 1) : ~Present(q, c)
        Differs(r, j) == /\ Present(r, keywords[j])
                         /\ hdrs[rows[r]][keywords[j]].t
                              # hdrs[rows[FirstRow(keywords[j])]][keywords[j]].t
        pairs == {rj \in (1 .. Len(rows)) \X (1 .. Len(keywords)) : Differs(rj[1], rj[2])}
    IN CHOOSE rj \in pairs :
          \A o \in pairs : rj[1] < o[1] \/ (rj[1] = o[1] /\ rj[2] <= o[2])

MismatchKeyword(keywords, hdrs) == keywords[FirstMismatch(keywords, hdrs)[2]]

\* lines 215-218: the files fits.getheader is called for, every file of the
\* collection up to the one at which the build raises
HeadersRead(keywords, hdrs) ==
    LET last_read == IF TypeMismatch(keywords, hdrs)
                     THEN ReadableFiles(hdrs)[FirstMismatch(keywords, hdrs)[1]]
                     ELSE Len(hdrs)
    IN [f \in 1 .. last_read |-> f]

\* lines 219-222: the files for which 'Unable to get FITS header for file' is
\* logged
Warnings(keywords, hdrs) ==
    LET read == HeadersRead(keywords, hdrs)
    IN SelectIdx(read, [i \in 1 .. Len(read) |-> hdrs[read[i]] = Unreadable])

\* what a call of _fits_summary leaves in the log and on the files
Logged(keywords, hdrs) ==
    [getheader |-> HeadersRead(keywords, hdrs), warnings |-> Warnings(keywords, hdrs)]

\* line 232: the ValueError raised for a keyword of two types
DifferentTypes(keyword) ==
    [t |-> "raise", exc |-> "ValueError",
     msg |-> "Different data types found for keyword", keyword |-> keyword]

\* line 250: the ValueError of Table.add_column for a column of another length
InconsistentLengths ==
    [t |-> "raise", exc |-> "ValueError", msg |-> "Inconsistent data column lengths"]

\* lines 205-252: the table built from the files, or the exception raised
SummaryTable(keywords, hdrs) ==
    IF TypeMismatch(keywords, hdrs)
    THEN DifferentTypes(MismatchKeyword(keywords, hdrs))
    ELSE LET cols == SummaryCols(keywords)
             data == [c \in Range(cols) |-> ColumnData(c, keywords, hdrs)]
         IN IF \E c \in Range(cols) : Len(data[c]) # Len(data["file"])
            THEN InconsistentLengths
            ELSE [t |-> "table", cols |-> cols, data |-> data,
                  mask |-> [c \in Range(cols) |-> ColumnMask(c, keywords, hdrs)]]

\* _fits_summary without the early return of lines 202-203
FitsSummary_TableForNoFiles(keywords, hdrs) == SummaryTable(keywords, hdrs)

\* lines 202-203: None when the collection has no files
FitsSummary(keywords, hdrs) ==
    IF Len(hdrs) = 0 THEN NoTable
    ELSE SummaryTable(keywords, hdrs)

----------------------------------------------------------------------------
(* The table held by the collection, its masks read through the heap *)

IsTable(tbl) == tbl.t = "table"

NRows(tbl) == Len(tbl.data["file"])

MaskOf(c) == mask_arrays[<<summary_info.id, c>>]

\* self.summary_info as a table value, each column with its current mask
CurrentTable ==
    IF IsTable(summary_info)
    THEN [t |-> "table", cols |-> summary_info.cols, data |-> summary_info.data,
          mask |-> [c \in Range(summary_info.cols) |-> MaskOf(c)]]
    ELSE summary_info

\* lines 133-144: the keywords property of a collection whose summary is tbl
KeywordsOf(tbl) ==
    IF IsTable(tbl) /\ NRows(tbl) > 0 THEN Range(tbl.cols) ELSE {}

\* MaskedColumn.compressed(): the unmasked values, in row order
Compressed(data, mask) == SelectIdx(data, [i \in 1 .. Len(data) |-> ~mask[i]])

----------------------------------------------------------------------------
(* _find_keywords_by_values, lines 254-320 *)

\* the filter value '*'
Wild == StrV("*")

\* lines 274-279: the table the clauses are evaluated on. Any keyword shared
\* with the summary selects the summary; otherwise a fresh table is built
\* from the files for just the predicate's keywords.
UseInfo(tbl, kwd) ==
    IF (DOMAIN kwd) \cap KeywordsOf(tbl) # {} THEN tbl
    ELSE FitsSummary(SetToSeq(DOMAIN kwd), headers)

\* line 284: use_info[key] on a key that is no column
ClauseKeyError(use_info, key) == key \notin Range(use_info.cols)

\* lines 295-298: file_key_value.lower() on an unmasked value that is no str
ClauseAttributeError(use_info, key, value) ==
    /\ value # Wild /\ value.t = "str"
    /\ \E idx \in 1 .. NRows(use_info) :
          ~use_info.mask[key][idx] /\ use_info.data[key][idx].t # "str"

\* HaveThisValue with '*' matching every row, masked or not
HaveThisValue_WildMatchesAll(use_info, key, value) ==
    LET value_missing == use_info.mask[key]
        col == use_info.data[key]
    IN [idx \in 1 .. NRows(use_info) |->
          IF value = Wild THEN TRUE
          ELSE IF value # None THEN
               IF value.t = "str"
               THEN ~value_missing[idx] /\ Lower(col[idx].v) = Lower(value.v)
               ELSE ~value_missing[idx] /\ col[idx] = value
          ELSE value_missing[idx]]

\* HaveThisValue with None compared like any other value that is no str
HaveThisValue_NoneIsAValue(use_info, key, value) ==
    LET value_missing == use_info.mask[key]
        col == use_info.data[key]
    IN [idx \in 1 .. NRows(use_info) |->
          IF value = Wild THEN ~value_missing[idx]
          ELSE IF value.t = "str"
               THEN ~value_missing[idx] /\ Lower(col[idx].v) = Lower(value.v)
               ELSE ~value_missing[idx] /\ col[idx] = value]

\* HaveThisValue with the filter value compared as given, not lower-cased
HaveThisValue_RawTarget(use_info, key, value) ==
    LET value_missing == use_info.mask[key]
        col == use_info.data[key]
    IN [idx \in 1 .. NRows(use_info) |->
          IF value = Wild THEN ~value_missing[idx]
          ELSE IF value # None THEN
               IF value.t = "str"
               THEN ~value_missing[idx] /\ Lower(col[idx].v) = value.v
               ELSE ~value_missing[idx] /\ col[idx] = value
          ELSE value_missing[idx]]

\* lines 285-312: have_this_value of one clause
HaveThisValue(use_info, key, value) ==
    LET value_missing == use_info.mask[key]
        col == use_info.data[key]
    IN [idx \in 1 .. NRows(use_info) |->
          IF value = Wild THEN ~value_missing[idx]
          ELSE IF value # None THEN
               IF value.t = "str"
               THEN ~value_missing[idx] /\ Lower(col[idx].v) = Lower(value.v)
               ELSE ~value_missing[idx] /\ col[idx] = value
          ELSE value_missing[idx]]

\* lines 281-314: matches, the conjunction of the clauses
Matches(use_info, kwd) ==
    LET have == [key \in DOMAIN kwd |-> HaveThisValue(use_info, key, kwd[key])]
    IN [idx \in 1 .. NRows(use_info) |-> \A key \in DOMAIN kwd : have[key][idx]]

\* the exceptions the call can end with: the dict's order decides which
\* raising clause is met first
FindExceptions(tbl, kwd) ==
    LET use_info == UseInfo(tbl, kwd)
    IN IF use_info = NoTable THEN {"TypeError"}              \* len(None), line 281
       ELSE IF use_info.t = "raise" THEN {use_info.exc}
       ELSE {"KeyError" : key \in {k \in DOMAIN kwd : ClauseKeyError(use_info, k)}}
            \cup {"AttributeError" : key \in {k \in DOMAIN kwd :
                      ~ClauseKeyError(use_info, k)
                      /\ ClauseAttributeError(use_info, k, kwd[k])}}

\* lines 319-320: the mask of self.summary_info['file'] after the call
NewFileMask(tbl, kwd) ==
    LET matches == Matches(UseInfo(tbl, kwd), kwd)
    IN [idx \in 1 .. NRows(tbl) |-> ~matches[idx]]

\* what files_filtered returns on a collection whose summary is tbl
FilteredFiles(tbl, kwd) == Compressed(tbl.data["file"], NewFileMask(tbl, kwd))

\* the mask is cleared and set again in place: the array object stays the same
SetFileMask(mask) ==
    [mask_arrays EXCEPT ![<<summary_info.id, "file">>] = mask]

----------------------------------------------------------------------------
(* files_filtered, lines 175-193 *)

\* history of a completed call: its arguments and its outcome
Call(op, kwd, exc, ret) == [op |-> op, kwd |-> kwd, exc |-> exc, ret |-> ret]

files_filtered(kwd) ==
    LET tbl == CurrentTable
        excs == FindExceptions(tbl, kwd)
    IN /\ \/ \E exc \in excs :
               /\ last' = Call("files_filtered", kwd, exc, <<>>)
               /\ UNCHANGED mask_arrays
          \/ /\ excs = {}
             /\ mask_arrays' = SetFileMask(NewFileMask(tbl, kwd))
             /\ last' = Call("files_filtered", kwd, "none",
                             Compressed(summary_info.data["file"],
                                        mask_arrays'[<<summary_info.id, "file">>]))
       /\ UNCHANGED <<headers, summary_info, gen, written>>

----------------------------------------------------------------------------
(* The directories, keyword lists and predicates the model ranges over *)

Headers == [HdrKeys -> {NoKey} \cup HdrVals("imagetyp") \cup HdrVals("naxis")]

\* a header gives a keyword one of its values or lacks it
Directories ==
    UNION {[1 .. n -> {h \in Headers : \A k \in HdrKeys :
                            h[k] \in {NoKey} \cup HdrVals(k)}] : n \in 1 .. MaxFiles}

\* the keywords argument of the constructor
InitKeywords == {<<"imagetyp">>, <<"imagetyp", "naxis">>}

\* the filter values tried for each keyword: '*', None, str and int values
Targets(k) ==
    CASE k = "imagetyp" -> {Wild, None, StrV("r"), StrV("R"), StrV("-123"), IntV(-123)}
      [] k = "naxis" -> {Wild, None, IntV(1), IntV(-123), StrV("-123")}
      [] OTHER -> {Wild}

\* the filter values tried in predicates of two clauses
PairTargets(k) ==
    CASE k = "imagetyp" -> {Wild, None, StrV("r")}
      [] k = "naxis" -> {Wild, None, IntV(1), StrV("-123")}
      [] OTHER -> {}

\* a dict with the one entry K = v
One(K, v) == [k \in {K} |-> v]

\* the **kwd of a call, a dict from keywords to filter values: no clause, one
\* clause or two. The 'file' column is a keyword of the collection too.
Predicates ==
    {<<>>}
    \cup UNION {{One(K, v) : v \in Targets(K)} : K \in HdrKeys \cup {"file"}}
    \cup {[k \in HdrKeys |-> IF k = "imagetyp" THEN v ELSE w] :
            v \in PairTargets("imagetyp"), w \in PairTargets("naxis")}

----------------------------------------------------------------------------
(* __init__, lines 46-70: the collection after construction *)

NoGen == [pc |-> "none"]

NoCall == Call("init", <<>>, "none", <<>>)

InitWith(hdrs, keywords) ==
    LET tbl == FitsSummary(keywords, hdrs)
    IN /\ tbl.t # "raise"
       /\ headers = hdrs
       /\ summary_info = IF IsTable(tbl)
                         THEN [t |-> "table", id |-> 1, cols |-> tbl.cols, data |-> tbl.data]
                         ELSE NoTable
       /\ mask_arrays = IF IsTable(tbl)
                        THEN [r \in {<<1, c>> : c \in Range(tbl.cols)} |-> tbl.mask[r[2]]]
                        ELSE [r \in {} |-> <<>>]
       /\ gen = NoGen
       /\ written = {}
       /\ last = NoCall

Init == \E hdrs \in Directories, keywords \in InitKeywords : InitWith(hdrs, keywords)

Next == \E kwd \in Predicates : files_filtered(kwd)

Spec == Init /\ [][Next]_vars

----------------------------------------------------------------------------
(* _generator, lines 350-404, behind headers(), hdus() and data() *)

location == "src"

\* path.join(directory, name), with the suffix save_with_name puts before the extension
Path(dir, name, suffix) == [dir |-> dir, name |-> name, suffix |-> suffix]

\* lines 406-411: paths(), the unmasked files joined with the location, read
\* with the mask arrays as they are in the heap arrays
paths(arrays) ==
    LET names == Compressed(summary_info.data["file"],
                            arrays[<<summary_info.id, "file">>])
    IN [i \in 1 .. Len(names) |-> Path(location, names[i].v, "")]

\* lines 374-376: the keys of return_options
ReturnTypes == {"header", "hdu", "data"}

NoItem == [what |-> "nothing"]

\* lines 379-380: the value yielded for the open file
Yielded(g, full_path) ==
    IF g.return_fname THEN [what |-> g.return_type, fname |-> full_path]
    ELSE [what |-> g.return_type]

\* lines 384-393: where the file just yielded is to be written
NewPath(g, full_path) ==
    Path(IF g.save_location # "" THEN g.save_location ELSE full_path.dir,
         full_path.name,
         g.save_with_name)

Exists(path) ==
    \/ path \in written
    \/ path.dir = location /\ path.suffix = ""
       /\ \E f \in Files : FileNames[f] = path.name

\* a directory that is not there: writeto into it raises IOError
NoSuchDir == "nodir"

Writable(dir) == dir # NoSuchDir

\* WrittenAfter with the write left out
WrittenAfter_NeverWrites(g, full_path) == written

\* WrittenAfter with writeto called for every item and told to overwrite
WrittenAfter_AlwaysOverwrites(g, full_path) ==
    written \cup {NewPath(g, full_path)}

\* lines 395-399: hdulist.writeto, whose IOError (the file exists and clobber
\* is false, or the destination cannot be written) is swallowed
WrittenAfter(g, full_path) ==
    LET new_path == NewPath(g, full_path)
    IN IF /\ (new_path # full_path \/ g.clobber)
          /\ (~Exists(new_path) \/ g.clobber)
          /\ Writable(new_path.dir)
       THEN written \cup {new_path}
       ELSE written

\* lines 369-380: the loop reaches position i of the paths: it ends, or
\* fits.open raises IOError, or the file is opened and yielded
Advance(g, i, opened) ==
    IF i > Len(g.paths)
    THEN [g EXCEPT !.pc = "done", !.idx = i, !.item = NoItem]
    ELSE IF ~opened
    THEN [g EXCEPT !.pc = "raised", !.exc = "IOError", !.idx = i, !.item = NoItem]
    ELSE IF g.return_type \notin ReturnTypes
    THEN [g EXCEPT !.pc = "raised", !.exc = "KeyError", !.idx = i, !.item = NoItem,
                   !.open = @ \cup {i}]
    ELSE [g EXCEPT !.pc = "yielded", !.idx = i, !.item = Yielded(g, g.paths[i]),
                   !.open = @ \cup {i}, !.yielded = Append(@, g.paths[i])]

\* lines 362-364: current_mask[col] = self.summary_info[col].mask stores the
\* mask array itself, not a copy of it
SavedMasks == [col \in Range(summary_info.cols) |-> <<summary_info.id, col>>]

\* lines 402-404: every column's mask is assigned, element by element, from
\* the array current_mask holds for it
ResetMasks(g, arrays) ==
    [r \in DOMAIN arrays |->
        IF r[1] = summary_info.id /\ r[2] \in DOMAIN g.current_mask
        THEN arrays[g.current_mask[r[2]]]
        ELSE arrays[r]]

\* headers(), hdus(), data(), lines 413-473: calling them makes the generator
\* object and runs none of its code
GenCall(return_type, return_fname, opts, kwd) ==
    /\ gen.pc = "none"
    /\ gen' = [pc |-> "created", return_type |-> return_type,
               return_fname |-> return_fname,
               save_with_name |-> opts.save_with_name,
               save_location |-> opts.save_location,
               clobber |-> opts.clobber, kwd |-> kwd,
               current_mask |-> <<>>, paths |-> <<>>, idx |-> 0, open |-> {},
               item |-> NoItem, exc |-> "none", mask0 |-> <<>>, yielded |-> <<>>]
    /\ UNCHANGED <<headers, summary_info, mask_arrays, written, last>>

\* the first next(): lines 357-380, up to the first yield. mask0 and yielded
\* are history: the value of every column's mask when the step begins, and the
\* paths of the files whose item has been yielded so far.
GenFirst(opened) ==
    /\ gen.pc = "created"
    /\ IF ~IsTable(summary_info)
       THEN /\ gen' = [gen EXCEPT !.pc = "done"]
            /\ UNCHANGED mask_arrays
       ELSE LET tbl == CurrentTable
                g0 == [gen EXCEPT !.current_mask = SavedMasks, !.mask0 = tbl.mask]
                excs == IF DOMAIN gen.kwd = {} THEN {} ELSE FindExceptions(tbl, gen.kwd)
            IN IF excs # {}
               THEN /\ \E exc \in excs : gen' = [g0 EXCEPT !.pc = "raised", !.exc = exc]
                    /\ UNCHANGED mask_arrays
               ELSE LET filtered == IF DOMAIN gen.kwd = {} THEN mask_arrays
                                    ELSE SetFileMask(NewFileMask(tbl, gen.kwd))
                        g1 == [g0 EXCEPT !.paths = paths(filtered)]
                    IN /\ gen' = Advance(g1, 1, opened)
                       /\ mask_arrays' = IF Len(g1.paths) = 0
                                         THEN ResetMasks(g1, filtered) ELSE filtered
    /\ UNCHANGED <<headers, summary_info, written, last>>

\* a later next(): lines 384-400 for the file just yielded, then the loop
\* goes on; when it ends, lines 402-404 reset the masks
GenResume(opened) ==
    /\ gen.pc = "yielded"
    /\ written' = WrittenAfter(gen, gen.paths[gen.idx])
    /\ gen' = Advance([gen EXCEPT !.open = @ \ {gen.idx}], gen.idx + 1, opened)
    /\ mask_arrays' = IF gen.idx + 1 > Len(gen.paths)
                      THEN ResetMasks(gen, mask_arrays) ELSE mask_arrays
    /\ UNCHANGED <<headers, summary_info, last>>

\* the caller leaves its loop: GeneratorExit is raised at the yield of line
\* 379, which `except ValueError` does not catch, and the generator ends there
GenClose ==
    /\ gen.pc = "yielded"
    /\ gen' = [gen EXCEPT !.pc = "closed"]
    /\ UNCHANGED <<headers, summary_info, mask_arrays, written, last>>

\* the interpreter frees the frame of a generator that has ended, and with
\* it, if nothing else refers to it, the HDUList that line 400 never closed
GenCollect ==
    /\ gen.pc \in {"closed", "raised"}
    /\ gen.open # {}
    /\ gen' = [gen EXCEPT !.open = {}]
    /\ UNCHANGED <<headers, summary_info, mask_arrays, written, last>>

----------------------------------------------------------------------------
(* One filtered iteration: the caller may filter first, then makes one
   generator and steps it, calling nothing else on the collection meanwhile *)

GenDirectories ==
    {d \in Directories : \A i \in DOMAIN d : d[i]["imagetyp"] # StrV("")}

GenPredicates ==
    {<<>>, One("imagetyp", StrV("r")), One("naxis", None),
     One("naxis", StrV("-123")),
     [k \in HdrKeys |-> IF k = "imagetyp" THEN Wild ELSE None]}

\* save_with_name, save_location and clobber as callers give them
SaveOptions ==
    {[save_with_name |-> "", save_location |-> "", clobber |-> FALSE],
     [save_with_name |-> "_new", save_location |-> "", clobber |-> FALSE],
     [save_with_name |-> "", save_location |-> "dest", clobber |-> FALSE],
     [save_with_name |-> "", save_location |-> "", clobber |-> TRUE],
     [save_with_name |-> "", save_location |-> location, clobber |-> FALSE],
     [save_with_name |-> "", save_location |-> location, clobber |-> TRUE],
     [save_with_name |-> "", save_location |-> NoSuchDir, clobber |-> FALSE]}

\* headers() alone takes return_fname
Methods ==
    {[return_type |-> "header", return_fname |-> FALSE],
     [return_type |-> "header", return_fname |-> TRUE],
     [return_type |-> "hdu", return_fname |-> FALSE],
     [return_type |-> "data", return_fname |-> FALSE]}

\* _generator called by name, with a return_type that is no key of
\* return_options
DirectCalls == {[return_type |-> "not a real generator", return_fname |-> FALSE]}

\* the directory may hold no FITS file at all
InitGen ==
    \E hdrs \in GenDirectories \cup {<<>>}, keywords \in InitKeywords :
        InitWith(hdrs, keywords)

\* the filters the caller may have left on the collection
PreFilters == {One("imagetyp", StrV("r")), One("naxis", StrV("-123"))}

FilterBefore == \E kwd \in PreFilters : gen.pc = "none" /\ files_filtered(kwd)

NextGen ==
    \/ FilterBefore
    \/ \E m \in Methods \cup DirectCalls, opts \in SaveOptions, kwd \in GenPredicates :
          GenCall(m.return_type, m.return_fname, opts, kwd)
    \/ \E opened \in BOOLEAN : GenFirst(opened)
    \/ \E opened \in BOOLEAN : GenResume(opened)
    \/ GenClose
    \/ GenCollect

SpecGen == InitGen /\ [][NextGen]_vars

----------------------------------------------------------------------------
(* What the files' headers say, read from the directory and not from the table *)

HasKey(f, K) == InHeader(headers[f], K)

\* the names of the files of a set, in discovery order
NamesOf(S) ==
    SelectIdx([i \in 1 .. Len(headers) |-> FileName(i)],
              [i \in 1 .. Len(headers) |-> i \in S])

\* a header value equals a filter value: without regard to case for strings
SameValue(stored, v) ==
    IF v.t = "str" THEN stored.t = "str" /\ Lower(stored.v) = Lower(v.v)
    ELSE stored = v

\* one clause of a predicate holds of a file
ClauseHolds(f, K, v) ==
    IF K = "file" THEN v = Wild
    ELSE IF v = Wild THEN HasKey(f, K)
    ELSE IF v = None THEN ~HasKey(f, K)
    ELSE HasKey(f, K) /\ SameValue(headers[f][K], v)

FilesMatching(kwd) ==
    {f \in Files : \A K \in DOMAIN kwd : ClauseHolds(f, K, kwd[K])}

FileUnmasked == \A idx \in 1 .. NRows(summary_info) : ~MaskOf("file")[idx]

Returned == last.op = "files_filtered" /\ last.exc = "none"

\* the last call was files_filtered with the single clause K = v
SingleClause(K, v) ==
    last.op = "files_filtered" /\ DOMAIN last.kwd = {K} /\ last.kwd[K] = v

----------------------------------------------------------------------------
(* C1: a files_filtered call on a collection whose 'file' column has no
   masked row leaves the 'file' column with no masked row. *)
C1_FilterLeavesFileUnmasked ==
    [][((\E kwd \in Predicates : files_filtered(kwd))
        /\ FileUnmasked /\ last'.exc = "none") => FileUnmasked']_vars

\* the filter values that are str, '*' aside
StrTargets(K) == {v \in Targets(K) : v.t = "str" /\ v # Wild}

\* the filter values that are neither '*' nor None
ConcreteTargets(K) == {v \in Targets(K) : v # Wild /\ v # None}

\* Supporting invariant: whenever files_filtered returns for a predicate
\* over header keywords, it returns exactly the files the predicate holds of.
ReturnedFilesAreExact ==
    (Returned /\ DOMAIN last.kwd \subseteq HdrKeys)
        => last.ret = NamesOf(FilesMatching(last.kwd))

(* C4: the result of a files_filtered call depends only on its predicate and
   on the headers, never on earlier calls: every call that returns, returns
   the files its own predicate holds of. *)
C4_ResultIndependentOfEarlierCalls ==
    Returned => last.ret = NamesOf(FilesMatching(last.kwd))

(* C5: files_filtered(K='*') returns exactly the files whose header has the
   keyword K, whatever its value. *)
C5_WildcardSelectsPresent ==
    \A K \in HdrKeys :
        SingleClause(K, Wild) =>
            /\ last.exc = "none"
            /\ last.ret = NamesOf({f \in Files : HasKey(f, K)})

C5_Witness ==
    /\ SingleClause("imagetyp", Wild) /\ Returned
    /\ \E f \in Files : /\ headers[f]["imagetyp"] = StrV("")
                        /\ FileName(f) \in Range(last.ret)
    /\ \E g \in Files : ~HasKey(g, "imagetyp") /\ FileName(g) \notin Range(last.ret)

(* C6: files_filtered(K=None) returns the complement of files_filtered(K='*')
   within the rows of the summary: the two are disjoint and together hold
   every indexed file. *)
C6_NoneIsComplementOfWildcard ==
    \A K \in HdrKeys :
        SingleClause(K, None) =>
            /\ last.exc = "none"
            /\ FindExceptions(CurrentTable, One(K, Wild)) = {}
            /\ LET star == FilteredFiles(CurrentTable, One(K, Wild))
               IN /\ Range(last.ret) \cap Range(star) = {}
                  /\ Range(last.ret) \cup Range(star) = Range(summary_info.data["file"])
                  /\ Len(last.ret) + Len(star) = NRows(summary_info)

C6_Witness ==
    /\ SingleClause("naxis", None) /\ Returned
    /\ Len(last.ret) > 0 /\ Len(last.ret) < NRows(summary_info)

(* C7: files_filtered(K=v) with a concrete value v, str or not, returns
   exactly the files where K is present and equal to v. *)
C7_ConcreteValueSelectsEqual ==
    \A K \in HdrKeys : \A v \in ConcreteTargets(K) :
        SingleClause(K, v) =>
            /\ last.exc = "none"
            /\ last.ret = NamesOf({f \in Files : HasKey(f, K) /\ SameValue(headers[f][K], v)})

(* C8: matching a str value is case-insensitive in the filter value and in
   the stored value: K=v, K=upper(v) and K=lower(v) end the same way, and
   with the same files. *)
C8_CaseInsensitive ==
    \A K \in HdrKeys : \A v \in StrTargets(K) :
        SingleClause(K, v) =>
            \A w \in {StrV(Upper(v.v)), StrV(Lower(v.v))} :
                IF last.exc = "none"
                THEN /\ FindExceptions(CurrentTable, One(K, w)) = {}
                     /\ FilteredFiles(CurrentTable, One(K, w)) = last.ret
                     /\ last.ret = NamesOf({f \in Files :
                            /\ HasKey(f, K) /\ headers[f][K].t = "str"
                            /\ Lower(headers[f][K].v) = Lower(v.v)})
                ELSE last.exc \in FindExceptions(CurrentTable, One(K, w))

C8_Witness ==
    /\ SingleClause("imagetyp", StrV("r")) /\ Returned
    /\ \E f \in Files : /\ headers[f]["imagetyp"] = StrV("R")
                        /\ FileName(f) \in Range(last.ret)

(* C9: a predicate with several clauses returns the intersection of the
   results of its single-clause predicates. *)
C9_ConjunctionIsIntersection ==
    (/\ last.op = "files_filtered"
     /\ Cardinality(DOMAIN last.kwd) >= 2
     /\ \A K \in DOMAIN last.kwd :
            FindExceptions(CurrentTable, One(K, last.kwd[K])) = {})
        => /\ last.exc = "none"
           /\ \A name \in Range(summary_info.data["file"]) :
                 name \in Range(last.ret) <=>
                    \A K \in DOMAIN last.kwd :
                        name \in Range(FilteredFiles(CurrentTable, One(K, last.kwd[K])))

(* C10: files_filtered with a predicate naming a keyword that is no column
   of the summary ends as it would on a collection built with that keyword
   too, also when other keywords of the predicate are columns. *)
C10_ReadThroughForNewKeyword ==
    (/\ last.op = "files_filtered"
     /\ DOMAIN last.kwd \subseteq HdrKeys
     /\ ~(DOMAIN last.kwd \subseteq KeywordsOf(summary_info)))
        => LET built == FitsSummary(
                    SetToSeq((KeywordsOf(summary_info) \ {"file"}) \cup DOMAIN last.kwd),
                    headers)
           IN IF FindExceptions(built, last.kwd) = {}
              THEN last.exc = "none" /\ last.ret = FilteredFiles(built, last.kwd)
              ELSE last.exc \in FindExceptions(built, last.kwd)

----------------------------------------------------------------------------
(* C2: when a generator called with a filter has run to its end, every
   column's mask is the mask the column had before the generator's first
   step. *)
C2_GeneratorRestoresMasks ==
    (gen.pc = "done" /\ IsTable(summary_info)) => CurrentTable.mask = gen.mask0

(* C3: when a generator is abandoned after some yielded items, or a step of
   it raises, every column's mask is the mask the column had before the
   generator's first step. *)
C3_MasksRestoredOnEarlyEnd ==
    gen.pc \in {"closed", "raised"} => CurrentTable.mask = gen.mask0

----------------------------------------------------------------------------
\* the keyword K is in no file's header
InNoHeader(K) == \A f \in Files : ~HasKey(f, K)

(* C11: a filter on a keyword that is in no file's header raises nothing:
   K=None returns every indexed file, K='*' and K=v for any concrete value v
   return no file. *)
C11_UnknownKeywordIsAllMasked ==
    \A K \in HdrKeys : \A v \in Targets(K) :
        (InNoHeader(K) /\ SingleClause(K, v)) =>
            /\ last.exc = "none"
            /\ last.ret = IF v = None THEN NamesOf(Files) ELSE <<>>

C11_Witness ==
    /\ InNoHeader("naxis") /\ "naxis" \notin Range(summary_info.cols)
    /\ SingleClause("naxis", None) /\ Returned
    /\ Len(last.ret) = Len(headers) /\ Len(headers) = MaxFiles

----------------------------------------------------------------------------
(* Building the summary: __init__, lines 46-70, and the keywords setter,
   lines 146-151, over directories that hold unreadable files and values of
   several types *)

\* a keywords argument that is a list, as opposed to None
ListV(l) == [t |-> "list", v |-> l]

\* the values a header gives each keyword in these directories
BuildHdrVals(k) == IF k = "imagetyp" THEN {StrV("r"), StrV(""), IntV(1)}
                   ELSE {IntV(1)}

BuildHeaders ==
    {h \in Headers : \A k \in HdrKeys : h[k] \in {NoKey} \cup BuildHdrVals(k)}

\* the headers of the directories of one file more: imagetyp alone
LongHeaders ==
    {h \in BuildHeaders : h["naxis"] = NoKey /\ h["imagetyp"] # StrV("")}

\* listdir gives no file, or some files of which fits.getheader may fail
BuildDirectories ==
    UNION {[1 .. n -> BuildHeaders \cup {Unreadable}] : n \in 0 .. MaxFiles}
    \cup [1 .. (MaxFiles + 1) -> LongHeaders]

\* the keywords argument of the constructor: None stands for the empty list
\* (lines 52-53)
BuildKeywords ==
    {<<>>, <<"imagetyp">>, <<"imagetyp", "naxis">>, <<"naxis", "imagetyp">>,
     <<"file">>, <<"file", "imagetyp">>, <<"imagetyp", "imagetyp">>,
     <<"*">>, <<"*", "naxis">>}

\* the values assigned to the keywords property
SetKeywords ==
    {None} \cup {ListV(l) : l \in {<<>>, <<"imagetyp">>, <<"imagetyp", "naxis">>,
                                   <<"file">>, <<"naxis", "naxis">>, <<"*">>}}

\* history of a completed build: the keywords given and the exception raised
BuildCall(op, keywords, outcome) ==
    [op |-> op, kwd |-> keywords, ret |-> <<>>,
     exc |-> IF outcome.t = "raise" THEN outcome.exc ELSE "none",
     raised |-> IF outcome.t = "raise" THEN outcome ELSE None]

\* the identities a table object may have: a new table is another object than
\* the one it replaces
TableIds == {1, 2}

NewId == IF IsTable(summary_info)
         THEN CHOOSE i \in TableIds : i # summary_info.id
         ELSE CHOOSE i \in TableIds : TRUE

\* self._summary_info = tbl, the masks of its columns new arrays in the heap
Assigned(id, tbl) == [t |-> "table", id |-> id, cols |-> tbl.cols, data |-> tbl.data]

MasksOf(id, tbl) == [r \in {<<id, c>> : c \in Range(tbl.cols)} |-> tbl.mask[r[2]]]

NoMasks == [r \in {} |-> <<>>]

\* info_file as the constructor gets it: None, the name of a file that is
\* not there, or a file holding a table
MissingInfo == [t |-> "missing"]

\* the table a collection over hdrs with keywords ['imagetyp'] writes, with
\* the first cell of its imagetyp column changed
InfoTable(hdrs) ==
    LET tbl == FitsSummary(<<"imagetyp">>, hdrs)
    IN [tbl EXCEPT !.data["imagetyp"][1] = StrV("forks"),
                   !.mask["imagetyp"][1] = FALSE]

InfoFiles(hdrs) ==
    LET tbl == FitsSummary(<<"imagetyp">>, hdrs)
    IN {None, MissingInfo}
       \cup IF /\ IsTable(tbl)
               /\ Len(tbl.data["imagetyp"]) > 0
               /\ \A r \in DOMAIN tbl.data["imagetyp"] : tbl.data["imagetyp"][r].t = "str"
            THEN {InfoTable(hdrs)}
            ELSE {}

\* lines 51-61: the summary before line 70, {} unless info_file is read
SummaryRead(info_file) ==
    IF IsTable(info_file) THEN info_file ELSE [t |-> "dict"]

\* line 70: the summary is built from the files whatever lines 54-61 read
SummaryBuilt(read, keywords, hdrs) == FitsSummary(keywords, hdrs)

\* __init__: when _fits_summary raises there is no collection, and the state
\* keeps the exception in place of the summary
InitBuildWith(hdrs, keywords, info_file) ==
    LET tbl == SummaryBuilt(SummaryRead(info_file), keywords, hdrs)
    IN /\ headers = hdrs
       /\ summary_info = IF IsTable(tbl) THEN Assigned(1, tbl) ELSE tbl
       /\ mask_arrays = IF IsTable(tbl) THEN MasksOf(1, tbl) ELSE NoMasks
       /\ gen = NoGen
       /\ written = {}
       /\ last = BuildCall("init", ListV(keywords), tbl)
                 @@ [info_file |-> info_file, location |-> location]
                 @@ Logged(keywords, hdrs)

\* location=None
NoLocation == "None"

CannotList ==
    [t |-> "raise", exc |-> "TypeError", msg |-> "location is not a path"]

\* __init__(location=None, info_file=...): listdir(None) of line 338 raises
\* TypeError, and where the interpreter lists the current directory for None,
\* path.join(None, info_file) of line 55 does
InitNoLocation(info_file) ==
    /\ headers = <<>>
    /\ summary_info = CannotList
    /\ mask_arrays = NoMasks
    /\ gen = NoGen
    /\ written = {}
    /\ last = BuildCall("init", ListV(<<>>), CannotList)
              @@ [info_file |-> info_file, location |-> NoLocation]
              @@ [getheader |-> <<>>, warnings |-> <<>>]

InitBuild ==
    \/ \E hdrs \in BuildDirectories, keywords \in BuildKeywords :
          \E info_file \in InfoFiles(hdrs) : InitBuildWith(hdrs, keywords, info_file)
    \/ \E hdrs \in BuildDirectories :
          \E info_file \in InfoFiles(hdrs) \ {None} : InitNoLocation(info_file)

\* the keywords setter, lines 146-151: None changes nothing, a list rebuilds
\* the summary from the files; an exception of the build leaves the summary
keywords_setter(keywords) ==
    /\ summary_info.t # "raise"
    /\ IF keywords = None
       THEN /\ last' = BuildCall("keywords", keywords, None)
            /\ UNCHANGED <<summary_info, mask_arrays>>
       ELSE LET tbl == FitsSummary(keywords.v, headers)
                id == NewId
            IN /\ last' = BuildCall("keywords", keywords, tbl)
                          @@ Logged(keywords.v, headers)
               /\ summary_info' = IF IsTable(tbl) THEN Assigned(id, tbl)
                                  ELSE IF tbl = NoTable THEN NoTable
                                  ELSE summary_info
               /\ mask_arrays' = IF IsTable(tbl) THEN MasksOf(id, tbl)
                                 ELSE mask_arrays
    /\ UNCHANGED <<headers, gen, written>>

NextBuild == \E keywords \in SetKeywords : keywords_setter(keywords)

SpecBuild == InitBuild /\ [][NextBuild]_vars

----------------------------------------------------------------------------
(* What a build is to give, read from the directory *)

\* the last call was the constructor or an assignment of a list of keywords
BuildAttempt == last.op \in {"init", "keywords"} /\ last.kwd.t = "list"

\* and it left the table it built as the summary
Built == BuildAttempt /\ last.exc = "none" /\ IsTable(summary_info)

\* no keyword is listed twice
Distinct(l) == \A i, j \in 1 .. Len(l) : l[i] = l[j] => i = j

\* the names of the files whose header can be read, in discovery order
IndexedNames ==
    LET rows == ReadableFiles(headers)
    IN [r \in 1 .. Len(rows) |-> FileName(rows[r])]

\* the keyword has values of different types in two files
TwoTypes(c) ==
    \E f, g \in Range(ReadableFiles(headers)) :
        /\ InHeader(headers[f], c) /\ InHeader(headers[g], c)
        /\ headers[f][c].t # headers[g][c].t

\* one row for each readable file, in discovery order, every column of that
\* length and every unmasked cell holding its own file's value
RowsAreTheReadableFiles ==
    LET rows == ReadableFiles(headers)
    IN /\ summary_info.data["file"] = IndexedNames
       /\ \A c \in Range(summary_info.cols) :
             /\ Len(summary_info.data[c]) = Len(rows)
             /\ \A r \in 1 .. Len(rows) :
                   (c # "file" /\ InHeader(headers[rows[r]], c))
                       => summary_info.data[c][r] = headers[rows[r]][c]

\* a cell is masked exactly when its file's header lacks the keyword; the
\* 'file' cells are not masked
MaskedIffAbsent ==
    LET rows == ReadableFiles(headers)
    IN /\ \A r \in 1 .. NRows(summary_info) : ~MaskOf("file")[r]
       /\ \A c \in Range(summary_info.cols) \ {"file"} :
             \A r \in 1 .. Len(rows) :
                /\ r <= Len(MaskOf(c))
                /\ MaskOf(c)[r] <=> ~InHeader(headers[rows[r]], c)
                /\ (InHeader(headers[rows[r]], c) /\ headers[rows[r]][c] = StrV(""))
                      => summary_info.data[c][r] = StrV("")

\* Supporting invariant: a build from a list that does not name 'file' gives
\* one row for each readable file and masks exactly the absent keywords.
BuildWithoutFileIsExact ==
    (Built /\ "file" \notin Range(last.kwd.v))
        => RowsAreTheReadableFiles /\ MaskedIffAbsent

(* C12: every summary a build leaves has exactly one row for each discovered
   file whose header could be read, in discovery order; an unreadable file
   is in no column and shifts no cell of another file. *)
C12_OneRowPerReadableFile ==
    Built => RowsAreTheReadableFiles

(* C13: a build raises the ValueError that names a keyword of two types if
   and only if a requested keyword has values of different types in two
   files; files that lack the keyword neither cause nor hide it. *)
C13_TypeMismatchIffTwoTypes ==
    BuildAttempt =>
        ((/\ last.raised # None
          /\ "keyword" \in DOMAIN last.raised
          /\ last.raised = DifferentTypes(last.raised.keyword)
          /\ last.raised.keyword \in Range(last.kwd.v)
          /\ TwoTypes(last.raised.keyword))
         <=> \E c \in Range(last.kwd.v) : TwoTypes(c))

C13_Witness ==
    /\ BuildAttempt /\ last.exc = "ValueError"
    /\ last.raised = DifferentTypes("imagetyp")
    /\ Len(headers) = 3
    /\ headers[1]["imagetyp"] = StrV("r")
    /\ headers[2]["imagetyp"] = NoKey
    /\ headers[3]["imagetyp"] = IntV(1)

(* C14: in every summary a build leaves, a cell is masked if and only if its
   file's header lacks the keyword, a keyword present with the value '' is
   an unmasked cell holding '', and no 'file' cell is masked. *)
C14_MaskedIffAbsent ==
    Built => MaskedIffAbsent

(* C15: assigning keywords that are a subset of the current keywords keeps
   the same table object and only removes columns; assigning keywords with
   a new keyword replaces the table by a rebuilt one with the same 'file'
   column and shared columns, whose columns are the new keywords and
   'file'. *)
C15_SubsetKeepsTableSupersetRebuilds ==
    [][((\E keywords \in SetKeywords : keywords_setter(keywords))
        /\ last'.kwd.t = "list" /\ last'.exc = "none"
        /\ Distinct(last'.kwd.v) /\ Range(last'.kwd.v) \subseteq HdrKeys
        /\ IsTable(summary_info) /\ NRows(summary_info) > 0
        /\ Built /\ "file" \notin Range(last.kwd.v))
       => LET new == Range(last'.kwd.v)
              shared == Range(summary_info.cols) \cap Range(summary_info'.cols)
              same == \A c \in shared :
                         /\ summary_info'.data[c] = summary_info.data[c]
                         /\ mask_arrays'[<<summary_info'.id, c>>] = MaskOf(c)
          IN /\ Range(summary_info'.cols) = new \cup {"file"}
             /\ "file" \in shared /\ same
             /\ IF new \subseteq KeywordsOf(summary_info)
                THEN summary_info'.id = summary_info.id
                ELSE summary_info'.id # summary_info.id]_vars

(* C16: after construction or an assignment of a list of keywords, naming
   'file' or not, the keywords hold 'file' exactly once and the 'file'
   column holds exactly the names of the indexed files. *)
C16_FileColumnAlwaysOnce ==
    (/\ BuildAttempt /\ Distinct(last.kwd.v)
     /\ ReadableFiles(headers) # <<>>
     /\ ~\E c \in Range(last.kwd.v) : TwoTypes(c))
        => /\ Built
           /\ Cardinality({i \in 1 .. Len(summary_info.cols) :
                              summary_info.cols[i] = "file"}) = 1
           /\ summary_info.data["file"] = IndexedNames
           /\ \A r \in 1 .. NRows(summary_info) : ~MaskOf("file")[r]

(* C17: a list that names a keyword more than once builds a summary with
   one column for each distinct keyword, each column with one cell for each
   indexed file. *)
C17_DuplicateKeywordsBuildOnce ==
    (/\ BuildAttempt /\ ~Distinct(last.kwd.v)
     /\ "file" \notin Range(last.kwd.v)
     /\ ~\E c \in Range(last.kwd.v) : TwoTypes(c)
     /\ Len(headers) > 0)
        => /\ Built
           /\ Range(summary_info.cols) = Range(last.kwd.v) \cup {"file"}
           /\ Len(summary_info.cols) = Cardinality(Range(summary_info.cols))
           /\ \A c \in Range(summary_info.cols) :
                 Len(summary_info.data[c]) = Len(ReadableFiles(headers))

\* summary_info compares equal to the empty list
EmptySummary == ListV(<<>>)

(* C18: assigning None to the keywords of a collection that has a summary
   leaves the summary empty. *)
C18_NoneEmptiesSummary ==
    [][((\E keywords \in SetKeywords : keywords_setter(keywords))
        /\ last'.kwd = None /\ IsTable(summary_info) /\ NRows(summary_info) > 0)
       => summary_info' = EmptySummary]_vars

\* the keywords in the header of at least one readable file
SeenKeywords ==
    {k \in HdrKeys : \E f \in Range(ReadableFiles(headers)) : InHeader(headers[f], k)}

(* C19: a list that holds '*' builds a summary with a column for every
   keyword in the header of at least one file and for every keyword the
   list names. *)
C19_WildcardKeywordIsUnion ==
    (/\ BuildAttempt /\ "*" \in Range(last.kwd.v)
     /\ SeenKeywords # {}
     /\ ~\E c \in HdrKeys : TwoTypes(c))
        => /\ Built
           /\ Range(summary_info.cols)
                = {"file"} \cup SeenKeywords \cup (Range(last.kwd.v) \ {"*"})

(* C20: a generator made with a return_type other than 'header', 'hdu' and
   'data', with a file to iterate that opens, ends its first step with a
   ValueError, having yielded no item and written no file. *)
C20_UnknownSelectorIsValueError ==
    (/\ gen.pc \notin {"none", "created"} /\ gen.return_type \notin ReturnTypes
     /\ Len(gen.paths) > 0 /\ gen.exc # "IOError")
        => gen.pc = "raised" /\ gen.exc = "ValueError" /\ written = {}

\* Supporting invariant: such a generator never yields an item nor writes a file.
UnknownSelectorYieldsNothing ==
    (gen.pc # "none" /\ gen.return_type \notin ReturnTypes)
        => gen.pc # "yielded" /\ gen.item = NoItem /\ written = {}

\* ---------------------------------------------------------------------
\* Writing during a traversal

\* the path is one of the collection's own files
IsSource(path) ==
    /\ path.dir = location /\ path.suffix = ""
    /\ \E f \in Files : FileNames[f] = path.name

SaveRequested(g) == g.save_with_name # "" \/ g.save_location # ""

\* C21: during a traversal with clobber false no file of the collection is
\* written over (a destination equal to the source is skipped and nothing is
\* raised for it), and without save_with_name, save_location or clobber
\* nothing is written at all.
C21_NoSourceOverwritten ==
    gen.pc # "none" =>
        /\ ~gen.clobber => \A path \in written : ~IsSource(path)
        /\ (~SaveRequested(gen) /\ ~gen.clobber) => written = {}

C21_Witness ==
    /\ gen.pc = "done" /\ ~gen.clobber
    /\ gen.save_location = location /\ gen.save_with_name = ""
    /\ Len(gen.yielded) > 1 /\ gen.exc = "none"
    /\ written = {}

\* C22: iterating headers() with save_location a destination that cannot be
\* written raises an I/O error: the traversal never gets past the first item
\* it would have to write, and so never completes.
C22_BadDestinationRaises ==
    (/\ gen.pc # "none" /\ gen.return_type = "header"
     /\ gen.save_location = NoSuchDir
     /\ Len(gen.yielded) > 0)
        => /\ gen.pc # "done"
           /\ Len(gen.yielded) = 1
           /\ gen.idx > 1 => gen.pc = "raised" /\ gen.exc = "IOError"

\* ---------------------------------------------------------------------
\* Construction from a saved table

\* C23: a collection constructed with info_file naming a saved summary table
\* has that table's keyword columns and cell values: with no location it has
\* no files, with a location the table's values stand where the files'
\* headers say otherwise.
C23_InfoFileRoundTrip ==
    (last.op = "init" /\ IsTable(last.info_file)) =>
        /\ last.exc = "none"
        /\ IsTable(summary_info)
        /\ \A c \in Range(last.info_file.cols) :
              /\ c \in Range(summary_info.cols)
              /\ summary_info.data[c] = last.info_file.data[c]
        /\ last.location = NoLocation => Len(headers) = 0

\* ---------------------------------------------------------------------
\* _fits_files_in_directory, lines 322-348

\* a file name or an extension is the sequence of its characters
Dot == <<".">>

Fit == <<"f", "i", "t">>

Fits == <<"f", "i", "t", "s">>

FitUpper == <<"F", "I", "T">>

Txt == <<"t", "x", "t">>

Gz == <<"g", "z">>

EntryName(stem, suffix) == <<stem>> \o Dot \o suffix

\* what listdir may find in the directory
DirEntries ==
    {EntryName("a", Fit), EntryName("b", Fits), EntryName("c", Fit \o Dot \o Gz),
     EntryName("d", FitUpper), EntryName("e", Txt), EntryName("f", Fits \o Dot \o Gz),
     EntryName("g", Gz)}

\* listdir gives every entry once, in no order the caller chooses
Listings == {SetToSeq(S) : S \in SUBSET DirEntries}

DefaultExtensions == <<Fit, Fits>>

ExtensionLists ==
    {DefaultExtensions, <<Fit>>, <<Fits, Fit>>, <<FitUpper>>, <<>>,
     <<Fit, Fit \o Dot \o Gz>>, <<Gz, Fits>>}

\* fnmatch.fnmatch(name, '*' + extension) where the extension has no
\* wildcard character and the platform's normcase leaves names alone
EndsWith(name, extension) ==
    /\ Len(extension) <= Len(name)
    /\ SubSeq(name, Len(name) - Len(extension) + 1, Len(name)) = extension

\* fnmatch.filter(all_files, '*' + extension)
FnmatchFilter(all_files, extension) ==
    SelectIdx(all_files, [i \in 1 .. Len(all_files) |-> EndsWith(all_files[i], extension)])

\* lines 337-340
FullExtensions(extensions, compressed) ==
    IF compressed
    THEN extensions \o [i \in 1 .. Len(extensions) |-> extensions[i] \o Dot \o Gz]
    ELSE extensions

\* lines 343-348
FitsFilesInDirectory(all_files, extensions, compressed) ==
    LET full_extensions == FullExtensions(extensions, compressed)
    IN Flatten([i \in 1 .. Len(full_extensions) |->
                   FnmatchFilter(all_files, full_extensions[i])])

\* the directory is listed and the method about to run: line 49 of the
\* constructor, before any header is read, and the callers that pass their
\* own extensions
InitFiles ==
    \E all_files \in Listings, extensions \in ExtensionLists, compressed \in BOOLEAN :
        /\ headers = <<>>
        /\ summary_info = NoTable
        /\ mask_arrays = NoMasks
        /\ gen = NoGen
        /\ written = {}
        /\ last = [op |-> "listdir", all_files |-> all_files,
                   extensions |-> extensions, compressed |-> compressed, ret |-> <<>>]

fits_files_in_directory ==
    /\ last.op = "listdir"
    /\ last' = [last EXCEPT !.op = "_fits_files_in_directory",
                            !.ret = FitsFilesInDirectory(last.all_files, last.extensions,
                                                         last.compressed)]
    /\ UNCHANGED <<headers, summary_info, mask_arrays, gen, written>>

NextFiles == fits_files_in_directory

SpecFiles == InitFiles /\ [][NextFiles]_vars

\* the names the search is to find
Wanted(all_files, extensions, compressed) ==
    {name \in Range(all_files) :
        \E i \in 1 .. Len(extensions) :
            \/ EndsWith(name, extensions[i])
            \/ compressed /\ EndsWith(name, extensions[i] \o Dot \o Gz)}

\* no search suffix is the end of another, and none is listed twice
NoOverlap(extensions, compressed) ==
    LET full_extensions == FullExtensions(extensions, compressed)
    IN \A i, j \in 1 .. Len(full_extensions) :
          EndsWith(full_extensions[i], full_extensions[j]) => i = j

\* C24: discovery returns exactly the names of the directory that end with one
\* of the given extensions, case mattering, and with an extension followed by
\* '.gz' only when compressed is true; every entry at most once, as the bare
\* name listdir gave.
C24_DiscoveryIsExactAndOnce ==
    last.op = "_fits_files_in_directory" =>
        /\ Range(last.ret) = Wanted(last.all_files, last.extensions, last.compressed)
        /\ Distinct(last.ret)

\* the names found are exactly the wanted ones whatever the extensions, and
\* each is found once when no search suffix is the end of another
DiscoveryExactWithoutOverlap ==
    last.op = "_fits_files_in_directory" =>
        /\ Range(last.ret) = Wanted(last.all_files, last.extensions, last.compressed)
        /\ NoOverlap(last.extensions, last.compressed) => Distinct(last.ret)
        /\ (last.extensions = DefaultExtensions) => Distinct(last.ret)

\* ---------------------------------------------------------------------
\* What a traversal visits

\* C25: a collection over a directory with no FITS file has summary_info None,
\* and a generator on it, with a filter or without, ends without yielding an
\* item and without raising.
C25_EmptyDirectoryYieldsNothing ==
    Len(headers) = 0 =>
        /\ summary_info = NoTable
        /\ gen.pc \in {"none", "created", "done"}
        /\ gen.pc # "none" => gen.yielded = <<>> /\ gen.exc = "none"

C25_Witness ==
    /\ Len(headers) = 0
    /\ gen.pc = "done"
    /\ DOMAIN gen.kwd # {}

\* the paths of the files the predicate holds of, in the order of the table
MatchingPaths(kwd) ==
    LET names == NamesOf(FilesMatching(kwd))
    IN [i \in 1 .. Len(names) |-> Path(location, names[i].v, "")]

\* the generator has run to exhaustion
Exhausted ==
    gen.pc = "done" /\ IsTable(summary_info) /\ gen.return_type \in ReturnTypes

\* C26: a generator run to exhaustion has yielded one item for every file its
\* predicate holds of (for every file when it has no predicate), each file
\* once and in the order of the table, and for no other file; with
\* return_fname the path paired with an item is the location joined with the
\* name of the item's file.
C26_OneItemPerMatchingFile ==
    /\ Exhausted => gen.yielded = MatchingPaths(gen.kwd)
    /\ (gen.pc = "yielded" /\ gen.return_fname)
          => /\ gen.item.fname = gen.yielded[Len(gen.yielded)]
             /\ gen.item.fname \in Range(MatchingPaths(gen.kwd))

\* the same on a collection no earlier filter has left its mask on
ExhaustedVisitsMatchesWhenUnmasked ==
    (gen.pc # "none" /\ gen.pc # "created" /\ IsTable(summary_info)
     /\ \A r \in DOMAIN gen.mask0["file"] : ~gen.mask0["file"][r])
        => /\ Exhausted => gen.yielded = MatchingPaths(gen.kwd)
           /\ (gen.pc = "yielded" /\ gen.return_fname)
                 => /\ gen.item.fname = gen.yielded[Len(gen.yielded)]
                    /\ gen.item.fname \in Range(MatchingPaths(gen.kwd))

\* ---------------------------------------------------------------------
\* Construction without keywords

\* C27: constructing a collection with no keywords reads the header of no file
\* of the directory, so that even for a file that cannot be parsed no 'Unable
\* to get FITS header' warning is logged.
C27_NoKeywordsReadsNoHeader ==
    (last.op = "init" /\ last.kwd = ListV(<<>>) /\ \E f \in Files : headers[f] = Unreadable)
        => last.getheader = <<>> /\ last.warnings = <<>>

\* ---------------------------------------------------------------------
\* Files held open by a traversal

\* the traversal is over: exhausted, stopped by the caller, or ended by an error
Ended == gen.pc \in {"done", "closed", "raised"}

\* C28: a generator holds at most one file of the collection open at a time,
\* the file of one step being closed before the file of the next is opened,
\* and once the iteration has ended, by exhaustion, by the caller stopping
\* early or by an error, no file the generator opened is still open.
C28_NoFileLeftOpen ==
    gen.pc # "none" =>
        /\ Cardinality(gen.open) <= 1
        /\ gen.pc = "yielded" => gen.open = {gen.idx}
        /\ Ended => gen.open = {}

\* the same for the traversals that run to exhaustion or end on a file that
\* cannot be opened
ExhaustedLeavesNoFileOpen ==
    gen.pc # "none" =>
        /\ Cardinality(gen.open) <= 1
        /\ gen.pc = "yielded" => gen.open = {gen.idx}
        /\ (gen.pc = "done" \/ (gen.pc = "raised" /\ gen.exc # "KeyError")) => gen.open = {}

\* ---------------------------------------------------------------------
\* When the items are written

\* the generator has been resumed after the k-th item it yielded
ResumedAfter(k) ==
    \/ k < Len(gen.yielded)
    \/ gen.pc = "done"
    \/ gen.pc = "raised" /\ gen.idx > k

\* every written file has the name of a yielded file with save_with_name
\* before the extension, in save_location or else in the source directory
DestinationsAreNamed ==
    \A path \in written :
        /\ path.suffix = gen.save_with_name
        /\ path.dir = (IF gen.save_location # "" THEN gen.save_location ELSE location)
        /\ \E k \in 1 .. Len(gen.yielded) : path.name = gen.yielded[k].name

\* C29 as stated: with save_with_name or save_location given, every item
\* yielded is at its destination before the next item is yielded and before
\* the generator finishes, under the name of its source with the suffix
\* before the extension, in save_location or else in the source directory.
C29_EveryYieldedItemIsWritten ==
    (gen.pc # "none" /\ SaveRequested(gen)) =>
        /\ \A k \in 1 .. Len(gen.yielded) :
              (k < Len(gen.yielded) \/ gen.pc # "yielded")
                 => NewPath(gen, gen.yielded[k]) \in written
        /\ DestinationsAreNamed

\* C29, amended: with save_with_name or save_location given, an item is at
\* its destination exactly when the generator has been resumed after it, the
\* destination is not the item's own source (or clobber is given) and the
\* destination can be written; the names are as stated.
C29_ResumedItemsAreWritten ==
    (gen.pc # "none" /\ SaveRequested(gen)) =>
        /\ \A k \in 1 .. Len(gen.yielded) :
              LET new_path == NewPath(gen, gen.yielded[k])
              IN new_path \in written
                   <=> /\ ResumedAfter(k)
                       /\ new_path # gen.yielded[k] \/ gen.clobber
                       /\ Writable(new_path.dir)
        /\ DestinationsAreNamed

C29_Witness ==
    /\ gen.pc = "yielded" /\ gen.save_with_name = "_new"
    /\ Len(gen.yielded) = 2
    /\ NewPath(gen, gen.yielded[1]) \in written
    /\ NewPath(gen, gen.yielded[2]) \notin written

\* ---------------------------------------------------------------------
\* A filter inside the loop of a traversal

NoSave == [save_with_name |-> "", save_location |-> "", clobber |-> FALSE]

\* files_filtered called in the body of the caller's loop, between two steps
\* of the generator
FilterInside == \E kwd \in PreFilters : gen.pc = "yielded" /\ files_filtered(kwd)

NextInterleave ==
    \/ \E m \in Methods, kwd \in GenPredicates :
          GenCall(m.return_type, m.return_fname, NoSave, kwd)
    \/ \E opened \in BOOLEAN : GenFirst(opened)
    \/ FilterInside
    \/ \E opened \in BOOLEAN : GenResume(opened)
    \/ GenClose

SpecInterleave == InitGen /\ [][NextInterleave]_vars

\* a filter was called inside the loop of a generator that has a predicate
\* of its own, and both traversals are over
BothFinished ==
    /\ gen.pc = "done" /\ IsTable(summary_info) /\ DOMAIN gen.kwd # {}
    /\ last.op = "files_filtered"

\* C30: when a generator and the filters called inside its loop have all
\* finished, every column's mask is the mask from before the generator
\* started, the generator has visited exactly the files its own predicate
\* holds of, and each filter has returned exactly the files of its own.
C30_InterleavedTraversalsAreIsolated ==
    BothFinished =>
        /\ CurrentTable.mask = gen.mask0
        /\ gen.yielded = MatchingPaths(gen.kwd)
        /\ last.exc = "none" => last.ret = NamesOf(FilesMatching(last.kwd))

\* each traversal sees its own matches whatever the other does
InterleavedVisitsOwnMatches ==
    /\ BothFinished => gen.yielded = MatchingPaths(gen.kwd)
    /\ (last.op = "files_filtered" /\ last.exc = "none")
          => last.ret = NamesOf(FilesMatching(last.kwd))

====
